---- MODULE Spec2Model ----
(***************************************************************************)
(* Job handle of the BigQuery client (src/src/job.ts): the status poller   *)
(* that turns metadata fetches into one 'complete' or 'error' event, and   *)
(* getQueryResults, which turns one results response into rows and a       *)
(* nextQuery cursor.                                                       *)
(*                                                                         *)
(* JavaScript objects are functions from the names of the properties that  *)
(* are set to their values; a property that is undefined is not in the     *)
(* DOMAIN.  null is the record Null.                                       *)
(***************************************************************************)
EXTENDS Integers, Sequences, FiniteSets, TLC

VARIABLES
    location,           \* this.location of the handle ("" when not set)
    metadata,           \* this.metadata, the cached snapshot
    completeListeners,  \* number of registered 'complete' subscribers
    polling,            \* the tick loop is running
    tornDown,           \* the last subscriber left before a terminal state
    pollState,          \* "Idle", "Fetching", "TerminalSuccess", "TerminalFailure"
    polls,              \* number of metadata fetches started
    fetched,            \* the metadata-fetch outcomes, in order of completion
    polled,             \* the calls poll_ made to its callback for the last fetch
    events,             \* the 'complete' / 'error' events emitted, in order
    replays,            \* terminal outcomes replayed to late subscribers
    cancels,            \* the cancel requests issued, in order
    call,               \* the getQueryResults call being served, or Null
    request,            \* the results request in flight, or Null
    sent,               \* the results requests of this call, in order
    answered,           \* the results responses of this call, in order
    callbacks           \* the calls made to the caller's callback, in order

pollVars == <<completeListeners, polling, tornDown, pollState, polls, fetched,
              polled, events, replays>>
jobVars == <<location, metadata, cancels>>
resultVars == <<call, request, sent, answered, callbacks>>
vars == <<location, metadata, completeListeners, polling, tornDown, pollState,
          polls, fetched, polled, events, replays, cancels, call, request, sent,
          answered, callbacks>>

----------------------------------------------------------------------------
(* Bounds *)

MaxListeners == 2
MaxPolls == 3
MaxCancels == 1
MaxReplays == 1
MaxPages == 3

----------------------------------------------------------------------------
(* Values *)

Null == [null |-> TRUE]
EmptyObj == [k \in {} |-> TRUE]

\* extend(target, source): the properties of source that are not undefined
\* overwrite those of target
Extend(target, source) ==
    [k \in DOMAIN target \cup DOMAIN source |->
        IF k \in DOMAIN source THEN source[k] ELSE target[k]]

Locations == {"", "EU"}

JobStates == {"PENDING", "RUNNING", "DONE"}
Tags == {1, 2}

\* a job resource as the metadata endpoint returns it: status.state, whether
\* status.errors is set, and a tag telling two payloads apart
MetadataPayloads == [state : JobStates, errors : BOOLEAN, tag : Tags]

NoErr == [type |-> "none"]
TransportErrors == {[type |-> "transport", code |-> 503]}

\* what getMetadata hands to its callback: (err, metadata, apiResponse),
\* metadata and apiResponse being the same object
MetadataResponses ==
    [err : TransportErrors, body : {Null}]
        \cup [err : {NoErr}, body : MetadataPayloads]
        \cup [err : TransportErrors,
              body : {[state |-> "DONE", errors |-> TRUE, tag |-> 1]}]

\* new util.ApiError(apiResponse.status)
ApiError(body) ==
    [type |-> "api", state |-> body.state, errors |-> body.errors]

----------------------------------------------------------------------------
(* Job.poll_ *)

\* poll_ with the state test of line 472 loosened to state !== 'PENDING'
poll_StateTest(r) ==
    LET err == IF r.err = NoErr /\ r.body.errors THEN ApiError(r.body)
               ELSE r.err
    IN  IF err # NoErr
        THEN << [kind |-> "failed", err |-> err, metadata |-> Null] >>
        ELSE IF r.body.state = "PENDING"
        THEN << [kind |-> "incomplete", err |-> NoErr, metadata |-> Null] >>
        ELSE << [kind |-> "complete", err |-> NoErr, metadata |-> r.body] >>

\* poll_ without the status.errors test of lines 463-465
poll_NoStatusErrors(r) ==
    IF r.err # NoErr
    THEN << [kind |-> "failed", err |-> r.err, metadata |-> Null] >>
    ELSE IF r.body.state # "DONE"
    THEN << [kind |-> "incomplete", err |-> NoErr, metadata |-> Null] >>
    ELSE << [kind |-> "complete", err |-> NoErr, metadata |-> r.body] >>

\* poll_ without the return of line 469: after callback(err) for status.errors
\* it goes on to the state test
poll_NoReturn(r) ==
    LET rest == IF r.body.state # "DONE"
                THEN << [kind |-> "incomplete", err |-> NoErr, metadata |-> Null] >>
                ELSE << [kind |-> "complete", err |-> NoErr, metadata |-> r.body] >>
    IN  IF r.err # NoErr
        THEN << [kind |-> "failed", err |-> r.err, metadata |-> Null] >>
        ELSE IF r.body.errors
        THEN << [kind |-> "failed", err |-> ApiError(r.body), metadata |-> Null] >>
                \o rest
        ELSE rest

\* poll_ with the !err guard of line 463 dropped: status.errors of the response
\* replaces a transport error
poll_StatusFirst(r) ==
    LET err == IF r.body # Null /\ r.body.errors THEN ApiError(r.body)
               ELSE r.err
    IN  IF err # NoErr
        THEN << [kind |-> "failed", err |-> err, metadata |-> Null] >>
        ELSE IF r.body.state # "DONE"
        THEN << [kind |-> "incomplete", err |-> NoErr, metadata |-> Null] >>
        ELSE << [kind |-> "complete", err |-> NoErr, metadata |-> r.body] >>

\* the calls poll_ makes to its callback for one getMetadata outcome, in order:
\* callback(err) is failed, callback() is incomplete, callback(null, metadata)
\* is complete
poll_(r) ==
    LET err == IF r.err = NoErr /\ r.body.errors THEN ApiError(r.body)
               ELSE r.err
    IN  IF err # NoErr
        THEN << [kind |-> "failed", err |-> err, metadata |-> Null] >>
        ELSE IF r.body.state # "DONE"
        THEN << [kind |-> "incomplete", err |-> NoErr, metadata |-> Null] >>
        ELSE << [kind |-> "complete", err |-> NoErr, metadata |-> r.body] >>

----------------------------------------------------------------------------
(* The lifecycle controller that drives poll_ *)

Terminal(s) == s \in {"TerminalSuccess", "TerminalFailure"}

\* the controller's handler of one poll_ callback, applied to
\* c = [state, polling, events]
OnPollCallback(c, cb, n) ==
    IF cb.kind = "failed"
    THEN [state |-> "TerminalFailure", polling |-> FALSE,
          events |-> Append(c.events,
                        [kind |-> "error", arg |-> cb.err, poll |-> n])]
    ELSE IF cb.kind = "incomplete"
    THEN [state |-> "Idle", polling |-> c.polling, events |-> c.events]
    ELSE [state |-> "TerminalSuccess", polling |-> FALSE,
          events |-> Append(c.events,
                        [kind |-> "complete", arg |-> cb.metadata, poll |-> n])]

RECURSIVE OnPollCallbacks(_, _, _)
OnPollCallbacks(c, cbs, n) ==
    IF cbs = << >> THEN c
    ELSE OnPollCallbacks(OnPollCallback(c, Head(cbs), n), Tail(cbs), n)

\* the terminal outcome a late subscriber is handed
Outcome == events[Len(events)]

Init ==
    /\ location \in Locations
    /\ metadata = EmptyObj
    /\ completeListeners = 0
    /\ polling = FALSE
    /\ tornDown = FALSE
    /\ pollState = "Idle"
    /\ polls = 0
    /\ fetched = << >>
    /\ polled = << >>
    /\ events = << >>
    /\ replays = << >>
    /\ cancels = << >>
    /\ call = Null
    /\ request = Null
    /\ sent = << >>
    /\ answered = << >>
    /\ callbacks = << >>

\* Subscribe that starts the tick loop whenever no terminal state was reached
Subscribe_Restarts ==
    /\ completeListeners < MaxListeners
    /\ completeListeners' = completeListeners + 1
    /\ IF Terminal(pollState)
       THEN /\ Len(replays) < MaxReplays
            /\ replays' = Append(replays, Outcome)
            /\ UNCHANGED polling
       ELSE /\ polling' = TRUE
            /\ UNCHANGED replays
    /\ UNCHANGED <<location, metadata, tornDown, pollState, polls, fetched,
                   events, cancels>>
    /\ UNCHANGED polled
    /\ UNCHANGED resultVars

\* Subscribe that hands a late subscriber nothing
Subscribe_NoReplay ==
    /\ completeListeners < MaxListeners
    /\ completeListeners' = completeListeners + 1
    /\ IF Terminal(pollState)
       THEN UNCHANGED <<polling, replays>>
       ELSE /\ polling' = (polling \/ ~tornDown)
            /\ UNCHANGED replays
    /\ UNCHANGED <<location, metadata, tornDown, pollState, polls, fetched,
                   events, cancels>>
    /\ UNCHANGED polled
    /\ UNCHANGED resultVars

\* job.on('complete', listener)
Subscribe ==
    /\ completeListeners < MaxListeners
    /\ completeListeners' = completeListeners + 1
    /\ IF Terminal(pollState)
       THEN /\ Len(replays) < MaxReplays
            /\ replays' = Append(replays, Outcome)
            /\ UNCHANGED polling
       ELSE /\ polling' = (polling \/ ~tornDown)
            /\ UNCHANGED replays
    /\ UNCHANGED <<location, metadata, tornDown, pollState, polls, fetched,
                   events, cancels>>
    /\ UNCHANGED polled
    /\ UNCHANGED resultVars

\* Unsubscribe that leaves the tick loop running
Unsubscribe_KeepsPolling ==
    /\ completeListeners > 0
    /\ completeListeners' = completeListeners - 1
    /\ UNCHANGED <<polling, tornDown>>
    /\ UNCHANGED <<location, metadata, pollState, polls, fetched, events,
                   replays, cancels>>
    /\ UNCHANGED polled
    /\ UNCHANGED resultVars

\* job.removeListener('complete', listener)
Unsubscribe ==
    /\ completeListeners > 0
    /\ completeListeners' = completeListeners - 1
    /\ IF completeListeners = 1 /\ ~Terminal(pollState)
       THEN polling' = FALSE /\ tornDown' = TRUE
       ELSE UNCHANGED <<polling, tornDown>>
    /\ UNCHANGED <<location, metadata, pollState, polls, fetched, events,
                   replays, cancels>>
    /\ UNCHANGED polled
    /\ UNCHANGED resultVars

\* a poll tick fires: Idle -> Fetching
Tick ==
    /\ polling
    /\ pollState = "Idle"
    /\ polls < MaxPolls
    /\ pollState' = "Fetching"
    /\ polls' = polls + 1
    /\ UNCHANGED <<location, metadata, completeListeners, polling, tornDown,
                   fetched, events, replays, cancels>>
    /\ UNCHANGED polled
    /\ UNCHANGED resultVars

\* FetchComplete that evaluates the outcome whether or not a subscriber is left
FetchComplete_NoSuppress(r) ==
    /\ pollState = "Fetching"
    /\ fetched' = Append(fetched, r)
    /\ polled' = poll_(r)
    /\ metadata' = IF r.err = NoErr THEN r.body ELSE metadata
    /\ LET c == OnPollCallbacks(
                    [state |-> pollState, polling |-> polling,
                     events |-> events], poll_(r), polls)
       IN  /\ pollState' = c.state
           /\ polling' = c.polling
           /\ events' = c.events
    /\ UNCHANGED <<location, completeListeners, tornDown, polls, replays,
                   cancels>>
    /\ UNCHANGED resultVars

\* the metadata fetch returns r: Fetching -> Evaluating -> Idle or terminal
FetchComplete(r) ==
    /\ pollState = "Fetching"
    /\ fetched' = Append(fetched, r)
    /\ polled' = poll_(r)
    /\ metadata' = IF r.err = NoErr THEN r.body ELSE metadata
    /\ IF tornDown
       THEN /\ pollState' = "Idle"
            /\ UNCHANGED <<polling, events>>
       ELSE LET c == OnPollCallbacks(
                        [state |-> pollState, polling |-> polling,
                         events |-> events], poll_(r), polls)
            IN  /\ pollState' = c.state
                /\ polling' = c.polling
                /\ events' = c.events
    /\ UNCHANGED <<location, completeListeners, tornDown, polls, replays,
                   cancels>>
    /\ UNCHANGED resultVars

\* cancel that also stops the tick loop
cancel_StopsPolling ==
    /\ Len(cancels) < MaxCancels
    /\ cancels' = Append(cancels,
                    [method |-> "POST", uri |-> "/cancel",
                     qs |-> IF location # "" THEN [location |-> location]
                            ELSE EmptyObj])
    /\ polling' = FALSE
    /\ UNCHANGED <<location, metadata, completeListeners, tornDown,
                   pollState, polls, fetched, events, replays>>
    /\ UNCHANGED polled
    /\ UNCHANGED resultVars

\* Job.cancel: one POST /cancel carrying the handle's location when set
cancel ==
    /\ Len(cancels) < MaxCancels
    /\ cancels' = Append(cancels,
                    [method |-> "POST", uri |-> "/cancel",
                     qs |-> IF location # "" THEN [location |-> location]
                            ELSE EmptyObj])
    /\ UNCHANGED <<location, metadata, completeListeners, polling, tornDown,
                   pollState, polls, fetched, events, replays>>
    /\ UNCHANGED polled
    /\ UNCHANGED resultVars

----------------------------------------------------------------------------
(* Job.getQueryResults *)

\* the options a caller passes
QueryResultsRequests ==
    { [k \in d |-> CASE k = "location" -> "US"
                     [] k = "pageToken" -> "t1"
                     [] k = "maxResults" -> 2
                     [] k = "autoPaginate" -> b ] :
        d \in SUBSET {"location", "pageToken", "maxResults", "autoPaginate"},
        b \in BOOLEAN }

Schemas == {"s1"}
RawRows == {<< >>, <<"a", "b">>, <<"c">>}

\* the bodies the results endpoint answers with
QueryResultsBodies ==
    { Extend(Extend(Extend(jc, pt), sc), rw) :
        jc \in {EmptyObj} \cup { [jobComplete |-> b] : b \in BOOLEAN },
        pt \in {EmptyObj, [pageToken |-> "t2"]},
        sc \in {EmptyObj} \cup { [schema |-> x] : x \in Schemas },
        rw \in {EmptyObj} \cup { [rows |-> x] : x \in RawRows } }

\* what the transport hands to the request callback: (err, resp)
QueryResultsResponses ==
    [err : TransportErrors, resp : {Null}]
        \cup [err : {NoErr}, resp : QueryResultsBodies]
        \cup [err : TransportErrors,
              resp : {[pageToken |-> "t2", schema |-> "s1", rows |-> <<"c">>]}]

\* the bodies of a paged result set: schema and rows both present
PageBodies ==
    { b \in QueryResultsBodies :
        /\ "schema" \in DOMAIN b
        /\ "rows" \in DOMAIN b
        /\ "jobComplete" \in DOMAIN b }

PageResponses ==
    [err : TransportErrors, resp : {Null}] \cup [err : {NoErr}, resp : PageBodies]

\* bigQuery.mergeSchemaWithRows_(schema, rows): one decoded row per raw row,
\* in the order of the raw rows
mergeSchemaWithRows_(schema, raw) ==
    [i \in 1..Len(raw) |-> [schema |-> schema, f |-> raw[i]]]

\* options with the arguments of extend swapped: the handle's location
\* overwrites the caller's
options_HandleWins(loc, opts) ==
    Extend(opts, IF loc # "" THEN [location |-> loc] ELSE EmptyObj)

\* options without the default of lines 400-402: the handle's location is
\* never sent
options_NoDefault(loc, opts) == opts

\* options = extend({location: this.location}, options)
options(loc, opts) ==
    Extend(IF loc # "" THEN [location |-> loc] ELSE EmptyObj, opts)

\* the request handed to bigQuery.request
resultsRequest(loc, opts) ==
    [uri |-> "/queries/job-id", qs |-> options(loc, opts)]

\* rows that tests resp.rows alone
rows_RowsOnly(resp) ==
    IF "rows" \in DOMAIN resp
    THEN mergeSchemaWithRows_(IF "schema" \in DOMAIN resp THEN resp.schema
                              ELSE "none", resp.rows)
    ELSE << >>

\* rows of a successful response
rows(resp) ==
    IF "schema" \in DOMAIN resp /\ "rows" \in DOMAIN resp
    THEN mergeSchemaWithRows_(resp.schema, resp.rows)
    ELSE << >>

\* nextQuery with the two tests of lines 424 and 427 in the other order
nextQuery_TokenFirst(qs, resp) ==
    IF "pageToken" \in DOMAIN resp
    THEN Extend(Extend(EmptyObj, qs), [pageToken |-> resp.pageToken])
    ELSE IF "jobComplete" \in DOMAIN resp /\ resp.jobComplete = FALSE
    THEN Extend(EmptyObj, qs)
    ELSE Null

\* nextQuery without the jobComplete test of lines 424-426
nextQuery_NoRetry(qs, resp) ==
    IF "pageToken" \in DOMAIN resp
    THEN Extend(Extend(EmptyObj, qs), [pageToken |-> resp.pageToken])
    ELSE Null

\* nextQuery of a successful response to the request with query string qs
\* extend with the arguments swapped: a pageToken of the request wins over the
\* one of the response
nextQuery_KeepsToken(qs, resp) ==
    IF "jobComplete" \in DOMAIN resp /\ resp.jobComplete = FALSE
    THEN Extend(EmptyObj, qs)
    ELSE IF "pageToken" \in DOMAIN resp
    THEN Extend(Extend(EmptyObj, [pageToken |-> resp.pageToken]), qs)
    ELSE Null

nextQuery(qs, resp) ==
    IF "jobComplete" \in DOMAIN resp /\ resp.jobComplete = FALSE
    THEN Extend(EmptyObj, qs)
    ELSE IF "pageToken" \in DOMAIN resp
    THEN Extend(Extend(EmptyObj, qs), [pageToken |-> resp.pageToken])
    ELSE Null

\* the request callback without the return of line 414: after callback(err, ...)
\* it goes on with the response body, when there is one
onQueryResults_NoReturn(qs, t) ==
    LET ok == << [err |-> NoErr, rows |-> rows(t.resp),
                  nextQuery |-> nextQuery(qs, t.resp), resp |-> t.resp] >>
    IN  IF t.err # NoErr
        THEN << [err |-> t.err, rows |-> Null, nextQuery |-> Null,
                 resp |-> t.resp] >> \o (IF t.resp # Null THEN ok ELSE << >>)
        ELSE ok

\* the request callback that reports an error as an empty last page
onQueryResults_Swallows(qs, t) ==
    IF t.err # NoErr
    THEN << [err |-> NoErr, rows |-> << >>, nextQuery |-> Null, resp |-> t.resp] >>
    ELSE << [err |-> NoErr, rows |-> rows(t.resp),
             nextQuery |-> nextQuery(qs, t.resp), resp |-> t.resp] >>

\* the request callback that returns on an error without calling back
onQueryResults_Silent(qs, t) ==
    IF t.err # NoErr
    THEN << >>
    ELSE << [err |-> NoErr, rows |-> rows(t.resp),
             nextQuery |-> nextQuery(qs, t.resp), resp |-> t.resp] >>

\* the calls the request callback of getQueryResults makes to callback, in
\* order: callback(err, null, null, resp) or callback(null, rows, nextQuery, resp)
onQueryResults(qs, t) ==
    IF t.err # NoErr
    THEN << [err |-> t.err, rows |-> Null, nextQuery |-> Null, resp |-> t.resp] >>
    ELSE << [err |-> NoErr, rows |-> rows(t.resp),
             nextQuery |-> nextQuery(qs, t.resp), resp |-> t.resp] >>

----------------------------------------------------------------------------
(* The pagination driver around getQueryResults *)

\* autoPaginate defaults to true
paginationMode(opts) ==
    IF "autoPaginate" \in DOMAIN opts /\ opts.autoPaginate = FALSE
    THEN "manual" ELSE "auto"

\* the first n elements of a sequence
Take(sq, n) == SubSeq(sq, 1, IF n < Len(sq) THEN n ELSE Len(sq))

\* the rows an auto-paginated call hands back: all of them, or the first
\* maxResults
Capped(c, acc) ==
    IF "maxResults" \in DOMAIN c.input THEN Take(acc, c.input.maxResults) ELSE acc

\* the maxResults cap of call c is reached by the rows acc
CapReached(c, acc) ==
    "maxResults" \in DOMAIN c.input /\ Len(acc) >= c.input.maxResults

\* the driver's handler that goes on fetching pages whatever maxResults says
OnPage_NoCap(d, c, loc, cb) ==
    IF c.mode = "manual"
    THEN [d EXCEPT !.request = Null, !.callbacks = Append(@, cb)]
    ELSE IF cb.err # NoErr
    THEN [d EXCEPT !.request = Null,
                   !.callbacks = Append(@, [err |-> cb.err, rows |-> Null,
                                            nextQuery |-> Null, resp |-> cb.resp])]
    ELSE IF cb.nextQuery = Null
    THEN [d EXCEPT !.request = Null,
                   !.acc = @ \o cb.rows,
                   !.callbacks = Append(@, [err |-> NoErr, rows |-> d.acc \o cb.rows,
                                            nextQuery |-> Null, resp |-> cb.resp])]
    ELSE [d EXCEPT !.request = resultsRequest(loc, cb.nextQuery),
                   !.acc = @ \o cb.rows,
                   !.sent = Append(@, resultsRequest(loc, cb.nextQuery))]

\* the driver's handler of one getQueryResults callback of call c, applied to
\* d = [acc, request, sent, callbacks]
OnPage(d, c, loc, cb) ==
    IF c.mode = "manual"
    THEN [d EXCEPT !.request = Null, !.callbacks = Append(@, cb)]
    ELSE IF cb.err # NoErr
    THEN [d EXCEPT !.request = Null,
                   !.callbacks = Append(@, [err |-> cb.err, rows |-> Null,
                                            nextQuery |-> Null, resp |-> cb.resp])]
    ELSE IF cb.nextQuery = Null \/ CapReached(c, d.acc \o cb.rows)
    THEN [d EXCEPT !.request = Null,
                   !.acc = @ \o cb.rows,
                   !.callbacks = Append(@, [err |-> NoErr,
                                            rows |-> Capped(c, d.acc \o cb.rows),
                                            nextQuery |-> Null, resp |-> cb.resp])]
    ELSE [d EXCEPT !.request = resultsRequest(loc, cb.nextQuery),
                   !.acc = @ \o cb.rows,
                   !.sent = Append(@, resultsRequest(loc, cb.nextQuery))]

RECURSIVE OnPages(_, _, _, _)
OnPages(d, c, loc, cbs) ==
    IF cbs = << >> THEN d
    ELSE OnPages(OnPage(d, c, loc, Head(cbs)), c, loc, Tail(cbs))

\* one invocation of getQueryResults with opts, reached through via, after the
\* exchanges hist of the same manual sequence
getQueryResultsCall(via, opts, hist) ==
    /\ request = Null
    /\ call' = [via |-> via, mode |-> paginationMode(opts), input |-> opts,
                acc |-> << >>, hist |-> hist]
    /\ request' = resultsRequest(location, opts)
    /\ sent' = << resultsRequest(location, opts) >>
    /\ answered' = << >>
    /\ callbacks' = << >>
    /\ UNCHANGED jobVars
    /\ UNCHANGED pollVars

\* job.getQueryResults(opts, callback)
getQueryResults(opts) == getQueryResultsCall("direct", opts, << >>)

\* options = extend({autoPaginate: false}, options)
streamOptions(opts) == Extend([autoPaginate |-> FALSE], opts)

\* job.getQueryResultsAsStream_(opts, callback)
getQueryResultsAsStream_(opts) ==
    getQueryResultsCall("stream", streamOptions(opts), << >>)

\* the results endpoint answers the request in flight with t
ResultsResponse(t) ==
    /\ request # Null
    /\ call.mode = "auto" => t \in PageResponses
    /\ LET d == OnPages([acc |-> call.acc, request |-> request, sent |-> sent,
                         callbacks |-> callbacks],
                        call, location, onQueryResults(request.qs, t))
       IN  /\ Len(d.sent) <= MaxPages
           /\ call' = [call EXCEPT !.acc = d.acc]
           /\ request' = d.request
           /\ sent' = d.sent
           /\ callbacks' = d.callbacks
    /\ answered' = Append(answered, t)
    /\ UNCHANGED jobVars
    /\ UNCHANGED pollVars

\* a caller of the combined system: a few requests and answers
SomeRequests == {EmptyObj, [autoPaginate |-> FALSE]}
SomeResponses ==
    { t \in PageResponses :
        t.err = NoErr =>
            /\ t.resp.rows = <<"c">>
            /\ t.resp.jobComplete
            /\ "pageToken" \notin DOMAIN t.resp }

Next ==
    \/ Subscribe
    \/ Unsubscribe
    \/ Tick
    \/ \E r \in MetadataResponses : FetchComplete(r)
    \/ cancel
    \/ \E o \in SomeRequests : getQueryResults(o)
    \/ \E t \in SomeResponses : ResultsResponse(t)

Spec == Init /\ [][Next]_vars

\* result fetching alone, over all requests and answers
NextResults ==
    \/ \E o \in QueryResultsRequests : getQueryResults(o)
    \/ \E o \in QueryResultsRequests : getQueryResultsAsStream_(o)
    \/ \E t \in QueryResultsResponses : ResultsResponse(t)

SpecResults == Init /\ [][NextResults]_vars

----------------------------------------------------------------------------
(* Properties of the status poller *)

EventsOf(kind) == { i \in 1..Len(events) : events[i].kind = kind }

\* the fetches that returned a payload without status.errors
CleanFetch(i) == fetched[i].err = NoErr /\ ~fetched[i].body.errors
DoneFetches ==
    { i \in 1..Len(fetched) : fetched[i].err = NoErr /\ fetched[i].body.state = "DONE" }
ErrorsFetches ==
    { i \in 1..Len(fetched) : fetched[i].err = NoErr /\ fetched[i].body.errors }
FirstOf(S) == CHOOSE i \in S : \A j \in S : i <= j

\* C1: when no fetch failed or carried status.errors and a subscriber was
\* registered throughout, no event is emitted before a DONE payload is fetched,
\* and from then on there is exactly one event: 'complete', emitted at the poll
\* that fetched the first DONE payload and carrying that payload; no payload is
\* fetched after it.
C1_OneSuccessAtFirstDone ==
    (~tornDown /\ \A i \in 1..Len(fetched) : CleanFetch(i)) =>
        IF DoneFetches = {}
        THEN events = << >>
        ELSE LET k == FirstOf(DoneFetches)
             IN  /\ events = << [kind |-> "complete", arg |-> fetched[k].body,
                                 poll |-> k] >>
                 /\ Len(fetched) = k

\* RUNNING, RUNNING, DONE: one 'complete' after the third poll
C1_Witness ==
    /\ ~tornDown
    /\ Len(fetched) = 3
    /\ \A i \in 1..3 : CleanFetch(i)
    /\ fetched[1].body.state = "RUNNING"
    /\ fetched[2].body.state = "RUNNING"
    /\ fetched[3].body.state = "DONE"
    /\ Len(events) = 1
    /\ events[1].kind = "complete"

\* C2: when some fetched payload carries status.errors, whatever its state, and
\* a subscriber was registered throughout, exactly one 'error' event and no
\* 'complete' event has been emitted.
C2_ErrorsGiveOneFailure ==
    (~tornDown /\ ErrorsFetches # {}) =>
        /\ Cardinality(EventsOf("error")) = 1
        /\ EventsOf("complete") = {}

\* status.errors on a payload that is not DONE, after an incomplete poll
C2_Witness ==
    /\ ~tornDown
    /\ Len(fetched) = 2
    /\ fetched[2].err = NoErr
    /\ fetched[2].body.errors
    /\ fetched[2].body.state = "RUNNING"
    /\ Len(events) = 1
    /\ events[1].kind = "error"
    /\ events[1].arg.type = "api"

\* C3: at most one terminal event is ever emitted, and once it is, the poller
\* is in a terminal state, no tick is scheduled, and no metadata fetch has been
\* started since the poll that produced it.
C3_AtMostOneTerminalEvent ==
    /\ Len(events) <= 1
    /\ events # << >> =>
        /\ Terminal(pollState)
        /\ (events[1].kind = "complete") = (pollState = "TerminalSuccess")
        /\ ~polling
        /\ polls = events[1].poll
        /\ Len(fetched) = polls

\* a terminal event, then further subscribe and unsubscribe, below the poll bound
C3_Witness ==
    /\ Len(events) = 1
    /\ polls < MaxPolls
    /\ completeListeners = 0
    /\ replays # << >>

\* C6: the handle starts with no poll and no tick loop; a metadata fetch is
\* started only while a 'complete' subscriber is registered; the tick loop starts
\* only in the step that registers the first subscriber (never in a step of
\* getQueryResults or cancel); and it is not running when no subscriber is left.
C6_NoPollWithoutSubscriber ==
    /\ polls = 0 /\ ~polling
    /\ [][ /\ polls' # polls => completeListeners > 0 /\ completeListeners' > 0
           /\ (polling' /\ ~polling) =>
                completeListeners = 0 /\ completeListeners' = 1
           /\ completeListeners' = 0 => ~polling' ]_vars

\* a fetch in flight for a subscriber, after cancel and getQueryResults were called
\* while nobody had subscribed
C6_Witness ==
    /\ pollState = "Fetching"
    /\ polls = 1
    /\ completeListeners = 1
    /\ cancels # << >>
    /\ callbacks # << >>

\* C7: tornDown records that the last subscriber left before a terminal state;
\* from then on it stays set and no metadata fetch is ever started again, whoever
\* subscribes afterwards.
C7_UnsubscribeHaltsPolling ==
    [][ /\ (completeListeners = 1 /\ completeListeners' = 0 /\ ~Terminal(pollState))
            => tornDown'
        /\ tornDown => tornDown' /\ polls' = polls /\ ~polling' ]_vars

\* torn down, idle, below the poll bound, with a new subscriber registered
C7_Witness ==
    /\ tornDown
    /\ pollState = "Idle"
    /\ polls >= 1 /\ polls < MaxPolls
    /\ completeListeners = MaxListeners

\* C8: once a terminal event has been emitted, a new subscription is handed that
\* same event (kind and argument) and starts no metadata fetch and no tick loop;
\* no fetch is started later either.
C8_ResubscribeReplays ==
    [][ events # << >> =>
          /\ polls' = polls /\ fetched' = fetched /\ events' = events
          /\ ~polling'
          /\ completeListeners' > completeListeners =>
                replays' = Append(replays, events[1]) ]_vars

\* a 'complete' event replayed to a subscriber that came after it
C8_Witness ==
    /\ Len(events) = 1
    /\ events[1].kind = "complete"
    /\ replays = << events[1] >>
    /\ completeListeners = MaxListeners
    /\ polls < MaxPolls

\* C9: a metadata fetch that returns after the last subscriber left emits no
\* event, schedules no tick and leaves the poller idle; nothing is ever emitted
\* by a handle that has been torn down.
C9_LateFetchSuppressed ==
    /\ tornDown => events = << >> /\ ~polling
    /\ [][ (tornDown /\ fetched' # fetched) =>
              /\ events' = events
              /\ pollState' = "Idle"
              /\ ~polling'
              /\ polls' = polls ]_vars

\* the fetch in flight at the teardown returned a DONE payload, a new subscriber
\* has registered since, and nothing was emitted
C9_Witness ==
    /\ tornDown
    /\ pollState = "Idle"
    /\ Len(fetched) = 1
    /\ fetched[1].err = NoErr
    /\ fetched[1].body.state = "DONE"
    /\ events = << >>
    /\ completeListeners > 0
    /\ polls < MaxPolls

----------------------------------------------------------------------------
(* Properties of getQueryResults *)

\* a single-page call has been answered successfully
ManualAnswered ==
    /\ call # Null
    /\ call.mode = "manual"
    /\ Len(answered) = 1
    /\ answered[1].err = NoErr

Has(o, k) == k \in DOMAIN o
NotComplete(resp) == Has(resp, "jobComplete") /\ resp.jobComplete = FALSE

\* o is p with the properties of K left out of the comparison
SameBut(o, p, K) ==
    /\ DOMAIN o \ K = DOMAIN p \ K
    /\ \A k \in DOMAIN o \ K : o[k] = p[k]

\* C4: a successful response gives exactly one of three cursors, in this order:
\* jobComplete false, the request as issued, even when the response also has a
\* pageToken; otherwise, a pageToken in the response, the request as issued with
\* pageToken set to it; otherwise null.  A response without jobComplete is not
\* taken as jobComplete false.
C4_CursorClassification ==
    ManualAnswered =>
        LET resp == answered[1].resp
            qs == sent[1].qs
            nq == callbacks[1].nextQuery
        IN  /\ Len(callbacks) = 1
            /\ NotComplete(resp) => nq # Null /\ SameBut(nq, qs, {})
            /\ (~NotComplete(resp) /\ Has(resp, "pageToken")) =>
                    /\ nq # Null
                    /\ SameBut(nq, qs, {"pageToken"})
                    /\ Has(nq, "pageToken") /\ nq.pageToken = resp.pageToken
            /\ (~NotComplete(resp) /\ ~Has(resp, "pageToken")) => nq = Null

\* jobComplete false together with a pageToken: the retry cursor wins
C4_Witness ==
    /\ ManualAnswered
    /\ NotComplete(answered[1].resp)
    /\ Has(answered[1].resp, "pageToken")
    /\ Has(sent[1].qs, "pageToken")
    /\ callbacks[1].nextQuery # Null
    /\ callbacks[1].nextQuery.pageToken = "t1"

\* the rows handed back are those of the response, decoded in order, or none
RowsOfResponse(rs, resp) ==
    \/ rs = << >>
    \/ /\ Has(resp, "rows")
       /\ Len(rs) = Len(resp.rows)
       /\ \A i \in 1..Len(rs) : rs[i].f = resp.rows[i]

\* C5 as stated: in manual mode a response with jobComplete false gives a cursor
\* equal, property for property, to the options the caller passed
C5_CursorIsInputRequest ==
    (ManualAnswered /\ NotComplete(answered[1].resp)) =>
        /\ callbacks[1].nextQuery # Null
        /\ callbacks[1].nextQuery = call.input
        /\ RowsOfResponse(callbacks[1].rows, answered[1].resp)

\* C5: in manual mode a response with jobComplete false gives a cursor that is
\* not null and equals the options the caller passed, with location set to the
\* handle's location when the caller passed none and the handle has one; no
\* other property is added, removed or altered.  The rows are those of the
\* response.
C5_CursorIsIssuedRequest ==
    (ManualAnswered /\ NotComplete(answered[1].resp)) =>
        LET nq == callbacks[1].nextQuery
        IN  /\ nq # Null
            /\ \A k \in DOMAIN call.input : Has(nq, k) /\ nq[k] = call.input[k]
            /\ DOMAIN nq \ DOMAIN call.input =
                    IF location # "" /\ ~Has(call.input, "location")
                    THEN {"location"} ELSE {}
            /\ Has(nq, "location") /\ ~Has(call.input, "location") =>
                    nq.location = location
            /\ RowsOfResponse(callbacks[1].rows, answered[1].resp)

\* a retry cursor that carries the handle's location, which the caller did not
\* pass, next to the caller's own pageToken
C5_Witness ==
    /\ ManualAnswered
    /\ NotComplete(answered[1].resp)
    /\ location = "EU"
    /\ ~Has(call.input, "location")
    /\ Has(call.input, "pageToken")
    /\ callbacks[1].nextQuery.location = "EU"
    /\ callbacks[1].nextQuery.pageToken = "t1"
    /\ Len(callbacks[1].rows) = 2

RECURSIVE RawRowsOf(_)
RawRowsOf(ts) ==
    IF ts = << >> THEN << >> ELSE Head(ts).resp.rows \o RawRowsOf(Tail(ts))

LastPage(resp) == ~NotComplete(resp) /\ ~Has(resp, "pageToken")

\* an auto-paginated call has called back and no page fetch failed
AutoAnswered ==
    /\ call # Null
    /\ call.mode = "auto"
    /\ "maxResults" \notin DOMAIN call.input
    /\ callbacks # << >>
    /\ \A i \in 1..Len(answered) : answered[i].err = NoErr

\* C10: an auto-paginated call whose page fetches all succeed calls back once,
\* without error, after fetching pages up to the first one whose cursor is null
\* (each request after the first being the previous request with the pageToken
\* of the previous response, if it gave one); the rows it hands back are the
\* rows of all fetched pages, page after page and in the order within each page.
C10_AutoPaginateAllPages ==
    AutoAnswered =>
        LET n == Len(answered)
        IN  /\ Len(callbacks) = 1
            /\ callbacks[1].err = NoErr
            /\ Len(sent) = n
            /\ LastPage(answered[n].resp)
            /\ \A i \in 1..(n - 1) :
                    /\ ~LastPage(answered[i].resp)
                    /\ SameBut(sent[i + 1].qs, sent[i].qs, {"pageToken"})
                    /\ ~NotComplete(answered[i].resp) =>
                            sent[i + 1].qs.pageToken = answered[i].resp.pageToken
                    /\ NotComplete(answered[i].resp) =>
                            SameBut(sent[i + 1].qs, sent[i].qs, {})
            /\ Len(callbacks[1].rows) = Len(RawRowsOf(answered))
            /\ \A j \in 1..Len(callbacks[1].rows) :
                    callbacks[1].rows[j].f = RawRowsOf(answered)[j]

\* three pages, the second fetched twice because the job was not complete
C10_Witness ==
    /\ AutoAnswered
    /\ Len(answered) = 3
    /\ answered[1].resp.rows = <<"c">>
    /\ NotComplete(answered[2].resp)
    /\ answered[3].resp.rows = <<"a", "b">>
    /\ Len(callbacks[1].rows) = 3

----------------------------------------------------------------------------
(* Properties of one poll attempt *)

LastFetched == fetched[Len(fetched)]

\* C16: poll_ calls its callback exactly once per metadata fetch, with one of
\* three outcomes: a transport error is failed with that same error, also when
\* the response carries status.errors; without one, status.errors is failed
\* with an error built from the status; otherwise a state other than DONE is
\* incomplete, with neither error nor metadata; otherwise complete with the
\* fetched metadata.
C16_PollClassifiesOnce ==
    fetched # << >> =>
        LET r == LastFetched
            o == polled[1]
        IN  /\ Len(polled) = 1
            /\ o.kind \in {"failed", "incomplete", "complete"}
            /\ r.err # NoErr =>
                    o.kind = "failed" /\ o.err = r.err /\ o.metadata = Null
            /\ (r.err = NoErr /\ r.body.errors) =>
                    /\ o.kind = "failed"
                    /\ o.err.type = "api"
                    /\ o.err.state = r.body.state
                    /\ o.metadata = Null
            /\ (r.err = NoErr /\ ~r.body.errors /\ r.body.state # "DONE") =>
                    o.kind = "incomplete" /\ o.err = NoErr /\ o.metadata = Null
            /\ (r.err = NoErr /\ ~r.body.errors /\ r.body.state = "DONE") =>
                    o.kind = "complete" /\ o.err = NoErr /\ o.metadata = r.body

\* a transport error whose response also carries status.errors
C16_Witness ==
    /\ fetched # << >>
    /\ LastFetched.err # NoErr
    /\ LastFetched.body # Null
    /\ LastFetched.body.errors
    /\ polled = << [kind |-> "failed", err |-> LastFetched.err, metadata |-> Null] >>

----------------------------------------------------------------------------
(* Properties of the pagination modes *)

RECURSIVE RowsReturned(_)
RowsReturned(ts) ==
    IF ts = << >> THEN << >>
    ELSE [i \in 1..Len(Head(ts).resp.rows) |-> Head(ts).resp.rows[i]]
            \o RowsReturned(Tail(ts))

RawOf(rs) == [i \in 1..Len(rs) |-> rs[i].f]

AutoCapped ==
    /\ call # Null
    /\ call.mode = "auto"
    /\ Has(call.input, "maxResults")

\* C11: an auto-paginated call with maxResults = N hands back the first N rows
\* of the pages it fetched, or all of them when they are fewer, and no page is
\* requested once the rows fetched have reached N.
C11_MaxResultsCap ==
    AutoCapped =>
        LET N == call.input.maxResults
        IN  /\ request # Null => Len(call.acc) < N
            /\ \A i \in 1..(Len(answered) - 1) :
                    answered[i].err = NoErr =>
                        Len(RowsReturned(SubSeq(answered, 1, i))) < N
            /\ (callbacks # << >> /\ callbacks[1].err = NoErr) =>
                    /\ Len(callbacks[1].rows) <= N
                    /\ RawOf(callbacks[1].rows) = Take(RowsReturned(answered), N)

\* maxResults 2 and a first page of two rows with more pages behind it: the two
\* rows, after one request
C11_Witness ==
    /\ AutoCapped
    /\ call.input.maxResults = 2
    /\ Len(answered) = 1
    /\ answered[1].err = NoErr
    /\ Len(answered[1].resp.rows) = 2
    /\ Has(answered[1].resp, "pageToken")
    /\ answered[1].resp.jobComplete
    /\ Len(sent) = 1
    /\ request = Null
    /\ RawOf(callbacks[1].rows) = <<"a", "b">>

AutoFailed(i) ==
    /\ call # Null
    /\ call.mode = "auto"
    /\ i \in 1..Len(answered)
    /\ answered[i].err # NoErr

\* C12: when a page fetch of an auto-paginated call fails, it is the last one:
\* no request follows it, and the caller is called back once, with that error
\* and no rows.  An auto-paginated call never calls back twice, and calls back
\* without error only when every page fetch succeeded.
C12_AutoFailsFast ==
    /\ \A i \in 1..Len(answered) :
            AutoFailed(i) =>
                /\ i = Len(answered)
                /\ Len(sent) = i
                /\ request = Null
                /\ Len(callbacks) = 1
                /\ callbacks[1].err = answered[i].err
                /\ callbacks[1].rows = Null
    /\ (call # Null /\ call.mode = "auto" /\ callbacks # << >>) =>
            /\ Len(callbacks) = 1
            /\ callbacks[1].err = NoErr =>
                    \A i \in 1..Len(answered) : answered[i].err = NoErr

\* the third page fetch fails after two pages with rows
C12_Witness ==
    /\ AutoFailed(3)
    /\ Len(call.acc) = 3
    /\ callbacks[1].err # NoErr

\* C13: the request getQueryResultsAsStream_ hands to getQueryResults has
\* autoPaginate false, whatever options the consumer passed, so the call is a
\* single-page one.
C13_StreamForcesManual ==
    (call # Null /\ call.via = "stream") =>
        /\ Has(call.input, "autoPaginate")
        /\ call.input.autoPaginate = FALSE
        /\ call.mode = "manual"
        /\ Len(sent) = 1

SinglePage == call # Null /\ call.mode = "manual"

\* C14: a single-page call sends exactly one request, to the results endpoint of
\* the job; its location is the one the caller passed, else the handle's, else
\* none; every other property is the caller's, unchanged.
C14_OneRequestLocationDefault ==
    SinglePage =>
        LET qs == sent[1].qs
        IN  /\ Len(sent) = 1
            /\ sent[1].uri = "/queries/job-id"
            /\ request # Null => request = sent[1]
            /\ SameBut(qs, call.input, {"location"})
            /\ Has(call.input, "location") =>
                    Has(qs, "location") /\ qs.location = call.input.location
            /\ (~Has(call.input, "location") /\ location # "") =>
                    Has(qs, "location") /\ qs.location = location
            /\ (~Has(call.input, "location") /\ location = "") =>
                    ~Has(qs, "location")

\* the handle's location sent next to the caller's pageToken and maxResults,
\* after the answer
C14_Witness ==
    /\ SinglePage
    /\ Len(answered) = 1
    /\ location = "EU"
    /\ ~Has(call.input, "location")
    /\ DOMAIN call.input = {"autoPaginate", "pageToken", "maxResults"}
    /\ sent[1].qs.location = "EU"
    /\ sent[1].qs.pageToken = "t1"
    /\ sent[1].qs.maxResults = 2

\* C15: when the results request of a single-page call fails, the caller is
\* called back once with that error, null rows, a null cursor and the response;
\* nothing is decoded and no second request is sent.
C15_ErrorVerbatim ==
    (SinglePage /\ answered # << >> /\ answered[1].err # NoErr) =>
        /\ callbacks = << [err |-> answered[1].err, rows |-> Null,
                           nextQuery |-> Null, resp |-> answered[1].resp] >>
        /\ Len(answered) = 1
        /\ Len(sent) = 1
        /\ request = Null

\* an error whose response body carries rows and a pageToken
C15_Witness ==
    /\ SinglePage
    /\ answered # << >>
    /\ answered[1].err # NoErr
    /\ answered[1].resp # Null
    /\ Has(answered[1].resp, "rows")
    /\ Has(answered[1].resp, "pageToken")
    /\ callbacks[1].rows = Null

\* C17: a successful response gives one decoded row per raw row, in order and
\* decoded with the response's schema, when it has both schema and rows, and no
\* rows otherwise; the cursor is null exactly when the response has neither
\* jobComplete false nor a pageToken, whether or not rows were decoded.
C17_RowsNeedSchemaAndRows ==
    ManualAnswered =>
        LET resp == answered[1].resp
            cb == callbacks[1]
        IN  /\ (Has(resp, "schema") /\ Has(resp, "rows")) =>
                    /\ Len(cb.rows) = Len(resp.rows)
                    /\ \A i \in 1..Len(cb.rows) :
                            cb.rows[i] = [schema |-> resp.schema, f |-> resp.rows[i]]
            /\ ~(Has(resp, "schema") /\ Has(resp, "rows")) => cb.rows = << >>
            /\ (cb.nextQuery = Null) <=> LastPage(resp)
            /\ (cb.nextQuery # Null /\ ~NotComplete(resp)) =>
                    cb.nextQuery.pageToken = resp.pageToken

\* rows without a schema: no rows handed back, and the next-page cursor all the
\* same
C17_Witness ==
    /\ ManualAnswered
    /\ Has(answered[1].resp, "rows")
    /\ Len(answered[1].resp.rows) = 2
    /\ ~Has(answered[1].resp, "schema")
    /\ callbacks[1].rows = << >>
    /\ callbacks[1].nextQuery # Null
    /\ ~NotComplete(answered[1].resp)
    /\ callbacks[1].nextQuery.pageToken = "t2"

----------------------------------------------------------------------------
(* Frame properties of cancel and getQueryResults *)

\* C18: a step of cancel appends one request, POST /cancel with the handle's
\* location when it has one, and changes nothing else: not the poller, the
\* subscribers, the events, the cached metadata or a results call.  An event is
\* emitted only in a step in which a metadata fetch returns.
C18_CancelOnlyRequests ==
    [][ /\ cancels' # cancels =>
            /\ cancels' = Append(cancels,
                            [method |-> "POST", uri |-> "/cancel",
                             qs |-> IF location # "" THEN [location |-> location]
                                    ELSE EmptyObj])
            /\ UNCHANGED <<location, metadata, pollVars, resultVars>>
        /\ events' # events => fetched' # fetched /\ cancels' = cancels ]_vars

\* cancelled with a subscriber registered: the tick loop still runs and a fetch
\* is in flight
C18_Witness ==
    /\ cancels = << [method |-> "POST", uri |-> "/cancel",
                     qs |-> [location |-> "EU"]] >>
    /\ completeListeners > 0
    /\ polling
    /\ pollState = "Fetching"
    /\ polls = 2

\* C20: once the transport has answered a single-page call, its callback has
\* been called exactly once, either with an error and no rows or cursor, or
\* without error and with a list of rows; before the answer it has not been
\* called.  A
\* call can be started whatever the poller's state, and no step of result
\* fetching changes the poller, the subscribers, the events, the cached
\* metadata or the cancel requests.
C20_OneCallbackNoInterference ==
    /\ [](SinglePage =>
            IF answered = << >>
            THEN callbacks = << >>
            ELSE /\ Len(callbacks) = 1
                 /\ IF callbacks[1].err # NoErr
                    THEN /\ callbacks[1].rows = Null
                         /\ callbacks[1].nextQuery = Null
                    ELSE Len(callbacks[1].rows) >= 0)
    /\ [](request = Null => ENABLED getQueryResults([autoPaginate |-> FALSE]))
    /\ [][ resultVars' # resultVars => UNCHANGED <<pollVars, jobVars>> ]_vars

\* a single-page call answered while the poller is fetching, after one poll
C20_Witness ==
    /\ SinglePage
    /\ Len(callbacks) = 1
    /\ callbacks[1].err = NoErr
    /\ pollState = "Fetching"
    /\ polls = 2
    /\ completeListeners = 1

----------------------------------------------------------------------------
(* Manual pagination driven by the caller: the callback re-invokes
   getQueryResults with the cursor it was handed, against a server that holds
   a finite result set and reports the job complete after finitely many
   answers. *)

\* the most answers with jobComplete false the server gives in one drive
MaxRetries == 2

\* PageTokens[k] is the token that asks for page k; page 1 is asked without one
PageTokens == <<"t1", "t2", "t3", "t4", "t5">>

\* the raw rows of each page, all different
ServerRows == << <<"a", "b">>, <<"c">>, <<"d">>, <<"e">>, <<"f">> >>

\* the page a request asks for
PageOf(qs) ==
    IF Has(qs, "pageToken")
    THEN CHOOSE k \in 1..Len(PageTokens) : PageTokens[k] = qs.pageToken
    ELSE 1

\* page k of the result set, with the token of the next page unless it is the last
ServerPage(k, last) ==
    [err |-> NoErr,
     resp |-> Extend([jobComplete |-> TRUE, schema |-> "s1", rows |-> ServerRows[k]],
                     IF last THEN EmptyObj ELSE [pageToken |-> PageTokens[k + 1]])]

\* the answers with jobComplete false given so far in the drive
Retried(hist) == Len(SelectSeq(hist, LAMBDA h : NotComplete(h.resp)))

\* what the server may answer to a request: not complete yet, or the page asked
\* for, which is the last one or not
ServerAnswers(qs, retried) ==
    (IF retried < MaxRetries THEN {[err |-> NoErr, resp |-> [jobComplete |-> FALSE]]}
     ELSE {})
        \cup {ServerPage(PageOf(qs), TRUE)}
        \cup (IF PageOf(qs) < MaxPages THEN {ServerPage(PageOf(qs), FALSE)} ELSE {})

\* the call that has just been answered, as the caller saw it
Answered == [qs |-> sent[1].qs, resp |-> answered[1].resp, rows |-> callbacks[1].rows]

\* job.getQueryResults({autoPaginate: false}, manualPaginationCallback), or the
\* first page pulled by the stream
StartDrive ==
    /\ call = Null
    /\ \/ getQueryResults([autoPaginate |-> FALSE])
       \/ getQueryResultsAsStream_(EmptyObj)

ServerAnswer ==
    /\ request # Null
    /\ \E t \in ServerAnswers(request.qs, Retried(call.hist)) : ResultsResponse(t)

\* if (nextQuery) job.getQueryResults(nextQuery, manualPaginationCallback)
manualPaginationCallback ==
    /\ call # Null
    /\ call.via = "direct"
    /\ request = Null
    /\ callbacks # << >>
    /\ callbacks[1].nextQuery # Null
    /\ Len(call.hist) < MaxPages + MaxRetries
    /\ getQueryResultsCall("direct", callbacks[1].nextQuery, Append(call.hist, Answered))

\* the stream pulls the next page with the cursor of the last
StreamNextPage ==
    /\ call # Null
    /\ call.via = "stream"
    /\ request = Null
    /\ callbacks # << >>
    /\ callbacks[1].nextQuery # Null
    /\ Len(call.hist) < MaxPages + MaxRetries
    /\ getQueryResultsCall("stream", streamOptions(callbacks[1].nextQuery),
                           Append(call.hist, Answered))

NextManual ==
    \/ StartDrive
    \/ ServerAnswer
    \/ manualPaginationCallback
    \/ StreamNextPage

\* every request is answered and every callback runs
SpecManual ==
    /\ Init
    /\ [][NextManual]_vars
    /\ WF_vars(StartDrive)
    /\ WF_vars(ServerAnswer)
    /\ WF_vars(manualPaginationCallback)
    /\ WF_vars(StreamNextPage)

\* the answered calls of the drive, oldest first
DriveLog ==
    IF call = Null THEN << >>
    ELSE IF answered = << >> THEN call.hist
    ELSE Append(call.hist, Answered)

\* those of them that were answered with a page
DrivePages == SelectSeq(DriveLog, LAMBDA h : ~NotComplete(h.resp))

RECURSIVE RowsOfLog(_)
RowsOfLog(log) ==
    IF log = << >> THEN << >> ELSE Head(log).rows \o RowsOfLog(Tail(log))

RECURSIVE RowsOfPages(_)
RowsOfPages(n) ==
    IF n = 0 THEN << >>
    ELSE RowsOfPages(n - 1) \o mergeSchemaWithRows_("s1", ServerRows[n])

\* the callback was handed a null cursor: the drive has stopped
DriveDone ==
    /\ call # Null
    /\ request = Null
    /\ callbacks # << >>
    /\ callbacks[1].nextQuery = Null

\* C19: in a drive that re-invokes getQueryResults with each cursor, a call
\* answered with jobComplete false is followed by a call with the same request;
\* the j-th call answered with a page asked for page j, with the token the
\* page before returned; the rows handed back so far are the rows of those
\* pages, each once and in order; the drive stops only on a page without a
\* token; and, the server answering jobComplete false finitely often and
\* holding finitely many pages, the drive does stop on a null cursor.
C19_DriveTerminatesAllPagesOnce ==
    /\ [](/\ \A i \in 1..(Len(DriveLog) - 1) :
                NotComplete(DriveLog[i].resp) => DriveLog[i + 1].qs = DriveLog[i].qs
          /\ \A j \in 1..Len(DrivePages) :
                /\ PageOf(DrivePages[j].qs) = j
                /\ j > 1 => /\ Has(DrivePages[j].qs, "pageToken")
                            /\ DrivePages[j].qs.pageToken = DrivePages[j - 1].resp.pageToken
          /\ RowsOfLog(DriveLog) = RowsOfPages(Len(DrivePages))
          /\ DriveDone => LastPage(DriveLog[Len(DriveLog)].resp))
    /\ <>DriveDone

\* a drive by callback that has stopped after three pages, the second of them
\* delivered only after an answer with jobComplete false
C19_Witness ==
    /\ DriveDone
    /\ call.via = "direct"
    /\ Len(DrivePages) = 3
    /\ Len(DriveLog) = 4
    /\ NotComplete(DriveLog[2].resp)
    /\ Has(DriveLog[2].qs, "pageToken")
    /\ Len(RowsOfLog(DriveLog)) = 4

====
